---- MODULE Spec2Model ----
(***************************************************************************)
(* Startup retry controller of the Antigravity Quota extension             *)
(* (src/src/extension.ts, lines 185-392: the version whose                 *)
(* initialize_extension takes the attempt number).                         *)
(*                                                                         *)
(* Every call of initialize_extension that got past its is_initialized     *)
(* guard is a "retry sequence": it is either waiting for its               *)
(* detect_process_info() promise to settle, or it has a setTimeout pending,*)
(* or it is parked in the waiting state.  The code keeps no handle on its  *)
(* timers and no table of running sequences, so the sequences are a bag of *)
(* records without identity.                                               *)
(***************************************************************************)
EXTENDS Integers, Sequences, FiniteSets, Bags, TLC

VARIABLES
    is_initialized,   \* module variable is_initialized
    enabled,          \* config_manager.get_config().enabled
    polling,          \* quota_manager: the recurring poll timer is running
    chains,           \* bag of retry sequences (in-flight detections, timers)
    ui,               \* last signal sent to the display layer
    cmds,             \* number of user commands issued so far
    connection,       \* quota_manager: the connection installed by init()
    deactivated,      \* deactivate() has run
    fetched,          \* the snapshot on its way to the on_update callback
    bar               \* the StatusBarManager: its item, its inputs

vars == <<is_initialized, enabled, polling, chains, ui, cmds, connection,
          deactivated, fetched, bar>>

\* ---------------------------------------------------------------- bounds
MaxCommands == 1
MaxModels == 2

\* ------------------------------------------------------ program constants
MAX_PHASE1_ATTEMPTS == 12

\* variant: the second phase counts the ten minutes, not the nine after the first
MAX_PHASE2_ATTEMPTS_ten == MAX_PHASE1_ATTEMPTS - 2

MAX_PHASE2_ATTEMPTS == 9
MAX_ATTEMPTS == MAX_PHASE1_ATTEMPTS + MAX_PHASE2_ATTEMPTS
SLOW_DELAY == 60000

\* variant: the first phase waits as long as the second
FAST_DELAY_minute == SLOW_DELAY

FAST_DELAY == 5000

\* no sequence fails more often than this; the guard keeps the history
\* counters finite
FailCap == MAX_ATTEMPTS + 2

\* the places of initialize_extension and of the reconnect command that
\* call the status bar
ControllerSites == {"initialize_extension", "not_found", "catch"}

\* ------------------------------------------------------ the Quota Poller
\* what detect_process_info() can resolve to
ProcessInfos ==
    { [extension_port |-> 1, connect_port |-> 2, csrf_token |-> "a"],
      [extension_port |-> 3, connect_port |-> 4, csrf_token |-> "b"] }

\* quota_manager before init() was called
NoConnection == [connect_port |-> 0, csrf_token |-> ""]

\* quota_manager.init(port, token) installs the connection
init(port, token) == [connect_port |-> port, csrf_token |-> token]

\* ------------------------------------------------------- the status bar
\* (StatusBarManager, src/README.md from line 141 on)

\* the models a snapshot can report: stable identifier and display label
ModelCatalog ==
    << [model_id |-> "gemini-3-pro-high", label |-> "Gemini 3 Pro (High)"],
       [model_id |-> "claude-sonnet-4-5", label |-> "Claude Sonnet 4.5"],
       [model_id |-> "gemini-3-flash", label |-> "Gemini 3 Flash"] >>

ModelIds ==
    {ModelCatalog[i].model_id :
        i \in 1..(IF MaxModels < Len(ModelCatalog) THEN MaxModels ELSE Len(ModelCatalog))}

\* the place of a model in the catalog
CatalogIndex(model_id) ==
    CHOOSE j \in 1..Len(ModelCatalog) : ModelCatalog[j].model_id = model_id

Label(model_id) == ModelCatalog[CatalogIndex(model_id)].label

\* remaining_percentage is optional: << >> when unset, <<t>> when known,
\* t counting tenths of a percent (195 is 19.5 %)
Unset == << >>
Percentages == {0, 195, 200}

\* the quota of one model; an exhausted model reports no percentage or 0,
\* and a model with nothing left is exhausted
ModelQuotas(model_id) ==
    {q \in [model_id : {model_id}, label : {Label(model_id)},
            remaining_percentage : {Unset} \cup {<<t>> : t \in Percentages},
            is_exhausted : BOOLEAN] :
        /\ q.is_exhausted => q.remaining_percentage \in {Unset, <<0>>}
        /\ q.remaining_percentage = <<0>> => q.is_exhausted}

\* the lists of distinct model identifiers
IdLists ==
    {ids \in UNION {[1..n -> ModelIds] : n \in 0..MaxModels} :
        \A i, j \in 1..Len(ids) : i # j => ids[i] # ids[j]}

\* the snapshots: every model at most once, in the order of the catalog
Snapshots ==
    UNION { {[models |-> ms] :
                ms \in {f \in [1..Len(ids) -> UNION {ModelQuotas(id) : id \in ModelIds}] :
                            \A i \in 1..Len(ids) : f[i].model_id = ids[i]}} :
            ids \in {l \in IdLists :
                        \A i, j \in 1..Len(l) :
                            i < j => CatalogIndex(l[i]) < CatalogIndex(l[j])} }

\* Number.prototype.toFixed(0) of t tenths: the nearest integer, halves up
ToFixed0(t) == (t + 5) \div 10

get_simple_name(label) ==
    CASE label = "Gemini 3 Pro (High)" -> "Pro"
      [] label = "Gemini 3 Flash" -> "Flash"
      [] label = "Claude Sonnet 4.5" -> "Claude"

get_abbreviation(label) ==
    CASE label = "Gemini 3 Pro (High)" -> "Gemini 3 Pro (H)"
      [] label = "Gemini 3 Flash" -> "Gemini 3 Flash"
      [] label = "Claude Sonnet 4.5" -> "Claude S4.5"

DefaultText == "$(rocket) AGQ"

\* new StatusBarManager(): the item shows the default text; pinned and
\* use_simple are the settings agq.pinnedModels and agq.useSimpleNames.
\* parts and show_credits keep the local array and the argument of the last
\* update(), last_call the method called last, menu the items of the open
\* quick pick (none when it is closed), toggled the argument of the last
\* toggle_pinned_model().
StatusBarManager(pinned, use_simple) ==
    [text |-> DefaultText, tooltip |-> "", backgroundColor |-> "undefined",
     last_snapshot |-> << >>, parts |-> << >>, show_credits |-> FALSE,
     pinned |-> pinned, use_simple |-> use_simple,
     last_call |-> "constructor", menu |-> << >>, toggled |-> ""]

\* show_loading()
show_loading(b) ==
    [b EXCEPT !.text = "$(sync~spin) AGQ", !.last_call = "show_loading"]

\* show_error(msg)
show_error(b, msg) ==
    [b EXCEPT !.text = "$(error) AGQ", !.tooltip = msg,
              !.backgroundColor = "statusBarItem.errorBackground",
              !.last_call = "show_error"]

\* what the quota callback is about to deliver: the snapshot the poller
\* fetched and the setting show_prompt_credits
NothingFetched == [snapshot |-> << >>, show_prompt_credits |-> FALSE]
Fetched(snapshot, show_prompt_credits) ==
    [snapshot |-> <<snapshot>>, show_prompt_credits |-> show_prompt_credits]

\* pinned.includes(model_id)
Includes(pinned, model_id) == \E i \in 1..Len(pinned) : pinned[i] = model_id

\* snapshot.models.filter(m => pinned.includes(m.model_id))
PinnedModels(snapshot, pinned) ==
    SelectSeq(snapshot.models, LAMBDA m : Includes(pinned, m.model_id))

\* variant: the boundary of 20 % counts as low
StatusIcon_le(m) ==
    IF m.is_exhausted THEN "$(error)"
    ELSE IF m.remaining_percentage # Unset /\ m.remaining_percentage[1] <= 200
         THEN "$(warning)" ELSE "$(check)"

\* the status_icon of update()
StatusIcon(m) ==
    IF m.is_exhausted THEN "$(error)"
    ELSE IF m.remaining_percentage # Unset /\ m.remaining_percentage[1] < 200
         THEN "$(warning)" ELSE "$(check)"

\* the pct of update()
PctText(m) ==
    IF m.remaining_percentage # Unset
    THEN ToString(ToFixed0(m.remaining_percentage[1])) \o "%" ELSE "N/A"

\* one element of parts
Part(m, use_simple) ==
    [model_id |-> m.model_id,
     status_icon |-> StatusIcon(m),
     display_name |-> IF use_simple THEN get_simple_name(m.label)
                      ELSE get_abbreviation(m.label),
     pct |-> PctText(m)]

PartText(p) == p.status_icon \o " " \o p.display_name \o ": " \o p.pct

\* parts.join('  ')
RECURSIVE Join(_)
Join(parts) ==
    IF parts = << >> THEN ""
    ELSE IF Len(parts) = 1 THEN PartText(parts[1])
    ELSE PartText(parts[1]) \o "  " \o Join(Tail(parts))

\* variant: the joined parts are shown even when there are none
ItemText_join(parts) == Join(parts)

\* the text update() shows for the parts it collected
ItemText(parts) == IF Len(parts) > 0 THEN Join(parts) ELSE DefaultText

\* variant: the model is added whether it is pinned or not
toggle_pinned_model_push(pinned, model_id) == Append(pinned, model_id)

\* toggle_pinned_model(model_id) on the list of agq.pinnedModels
toggle_pinned_model(pinned, model_id) ==
    IF Includes(pinned, model_id)
    THEN LET index == CHOOSE i \in 1..Len(pinned) :
                          /\ pinned[i] = model_id
                          /\ \A j \in 1..(i - 1) : pinned[j] # model_id
         IN  SubSeq(pinned, 1, index - 1) \o SubSeq(pinned, index + 1, Len(pinned))
    ELSE Append(pinned, model_id)

\* toggle_simple_names() on the setting agq.useSimpleNames
toggle_simple_names(current) == ~current

\* Number.prototype.toFixed(1) of t tenths
ToFixed1(t) == ToString(t \div 10) \o "." \o ToString(t % 10)

\* draw_progress_bar(percentage): the numbers of filled and empty cells
draw_progress_bar(t) ==
    LET total == 10
        filled == (t + 50) \div 100
    IN  [filled |-> filled, empty |-> total - filled]

\* an item of the quick pick
MenuItem(kind, label, model_id, action, status_icon, progress, pct) ==
    [kind |-> kind, label |-> label, model_id |-> model_id, action |-> action,
     status_icon |-> status_icon, progress |-> progress, pct |-> pct]

NoProgress == [filled |-> 0, empty |-> 0]

\* the item build_menu_items() makes for the model m
ModelItem(m, pinned) ==
    LET pct == IF m.remaining_percentage # Unset THEN m.remaining_percentage[1] ELSE 0
        selection_icon == IF Includes(pinned, m.model_id)
                          THEN "$(check)" ELSE "$(circle-outline)"
        status_icon == IF m.is_exhausted THEN "$(error)"
                       ELSE IF pct < 200 THEN "$(warning)" ELSE ""
    IN  MenuItem("model",
                 selection_icon \o " "
                    \o (IF status_icon # "" THEN status_icon \o " " ELSE "")
                    \o m.label,
                 m.model_id, "", status_icon,
                 draw_progress_bar(pct), ToFixed1(pct) \o "%")

\* build_menu_items()
build_menu_items(b) ==
    LET models == IF b.last_snapshot # << >> THEN b.last_snapshot[1].models ELSE << >>
    IN  << MenuItem("separator", "Settings", "", "", "", NoProgress, ""),
           MenuItem("action",
                    "$(settings-gear) Simple names: "
                        \o (IF b.use_simple THEN "ON" ELSE "OFF"),
                    "", "toggle_simple_names", "", NoProgress, ""),
           MenuItem("separator", "Model Quotas", "", "", "", NoProgress, "") >>
        \o (IF Len(models) > 0
            THEN [i \in 1..Len(models) |-> ModelItem(models[i], b.pinned)]
            ELSE << MenuItem("info", "$(info) No model data", "", "", "",
                             NoProgress, "") >>)

\* update(snapshot, show_credits)
update(b, snapshot, show_credits) ==
    LET pinned_models == PinnedModels(snapshot, b.pinned)
        parts == IF Len(pinned_models) = 0 /\ ~show_credits THEN << >>
                 ELSE [i \in 1..Len(pinned_models) |-> Part(pinned_models[i], b.use_simple)]
    IN  [b EXCEPT !.last_snapshot = <<snapshot>>,
                  !.show_credits = show_credits,
                  !.parts = parts,
                  !.text = IF Len(pinned_models) = 0 /\ ~show_credits
                           THEN DefaultText ELSE ItemText(parts),
                  !.backgroundColor = "undefined",
                  !.tooltip = "Click to view Antigravity Quota details",
                  !.last_call = "update"]

\* ------------------------------------------------------------ bag helpers
One(r) == SetToBag({r})

Live == {r \in BagToSet(chains) : r.st \in {"detect", "timer"}}
InFlight == {r \in BagToSet(chains) : r.st = "detect"}
Pending == {r \in BagToSet(chains) : r.st = "timer"}
Parked == {r \in BagToSet(chains) : r.st = "waiting"}

RECURSIVE CountOf(_, _)
CountOf(S, B) ==
    IF S = {} THEN 0
    ELSE LET r == CHOOSE x \in S : TRUE
         IN  CopiesIn(r, B) + CountOf(S \ {r}, B)

InFlightCount == CountOf(InFlight, chains)

\* --------------------------------------------------------- status bar, ui
\* status_bar.show_loading / show_waiting / show_error / update, and the
\* vscode.window.show*Message pop-ups; "by" is the place of the call.
Signal(kind, by) == [kind |-> kind, by |-> by, popup |-> "none"]
Popup(s, p) == [s EXCEPT !.popup = p]

\* ------------------------------------------------------- quota_manager
start_polling == TRUE
stop_polling == FALSE

\* the argument of show_loading: nothing at attempt 0, else `(k/n)`,
\* kept as the pair <<k, n>>
LoadingAnnotation(attempt) ==
    IF attempt > 0 THEN <<attempt, MAX_ATTEMPTS>> ELSE << >>

\* the `attempt k/n` of the log line written before the detection
LoggedAttempt(attempt) == <<attempt + 1, MAX_ATTEMPTS>>

\* -------------------------------------------------- initialize_extension
\* The synchronous part of initialize_extension(attempt), up to the await:
\* the record of a sequence whose detection is in flight.  The config is
\* read before the await and used after it.
Detecting(r, attempt, cfg_enabled) ==
    [r EXCEPT !.attempt = attempt, !.st = "detect", !.delay = 0,
              !.enabled = cfg_enabled,
              !.shown = LoadingAnnotation(attempt),
              !.logged = LoggedAttempt(attempt)]

\* a sequence about to start; the fields rw, fails and delays are history:
\* rw = started by a reconnect command issued in the waiting state,
\* fails = failed resolutions so far, delays = the delays scheduled so far.
NewChain(rw) ==
    [attempt |-> 0, st |-> "idle", delay |-> 0, enabled |-> FALSE,
     rw |-> rw, fails |-> 0, delays |-> << >>,
     shown |-> << >>, logged |-> << >>]

\* variant: the retry is set up with the attempt it was given
RetryAttempt_same(attempt) == attempt

\* variant: the retry is set up without its argument (the default, 0)
RetryAttempt_reset(attempt) == 0

\* the argument of the retry: setTimeout(() => initialize_extension(attempt + 1), delay)
RetryAttempt(attempt) == attempt + 1

\* variant: the last failure is reported as the version without retries
\* reports every failure, with show_error and showErrorMessage
NotFoundBranch_error(attempt) ==
    IF attempt < MAX_PHASE1_ATTEMPTS
    THEN [should_retry |-> TRUE, delay |-> FAST_DELAY, next |-> RetryAttempt(attempt),
          signal |-> "none", popup |-> "none"]
    ELSE IF attempt < MAX_ATTEMPTS
    THEN [should_retry |-> TRUE, delay |-> SLOW_DELAY, next |-> RetryAttempt(attempt),
          signal |-> "none", popup |-> "none"]
    ELSE [should_retry |-> FALSE, delay |-> 0, next |-> attempt,
          signal |-> "error", popup |-> "error"]

\* else-branch of "if (process_info)": the retry strategy
NotFoundBranch(attempt) ==
    IF attempt < MAX_PHASE1_ATTEMPTS
    THEN [should_retry |-> TRUE, delay |-> FAST_DELAY, next |-> RetryAttempt(attempt),
          signal |-> "none", popup |-> "none"]
    ELSE IF attempt < MAX_ATTEMPTS
    THEN [should_retry |-> TRUE, delay |-> SLOW_DELAY, next |-> RetryAttempt(attempt),
          signal |-> "none", popup |-> "none"]
    ELSE [should_retry |-> FALSE, delay |-> 0, next |-> attempt,
          signal |-> "waiting", popup |-> "none"]

\* variant: after an exception every retry comes after the short delay
CatchBranch_fast(attempt) ==
    IF attempt < MAX_ATTEMPTS
    THEN [should_retry |-> TRUE, delay |-> FAST_DELAY,
          next |-> RetryAttempt(attempt), signal |-> "none", popup |-> "none"]
    ELSE [should_retry |-> FALSE, delay |-> 0, next |-> attempt,
          signal |-> "waiting", popup |-> "none"]

\* catch-branch of the try around the detection
CatchBranch(attempt) ==
    IF attempt < MAX_ATTEMPTS
    THEN [should_retry |-> TRUE,
          delay |-> IF attempt < MAX_PHASE1_ATTEMPTS THEN FAST_DELAY ELSE SLOW_DELAY,
          next |-> RetryAttempt(attempt), signal |-> "none", popup |-> "none"]
    ELSE [should_retry |-> FALSE, delay |-> 0, next |-> attempt,
          signal |-> "waiting", popup |-> "none"]

\* the record of a sequence after a failed attempt
Failed(r, b) ==
    IF b.should_retry
    THEN [r EXCEPT !.attempt = b.next, !.st = "timer", !.delay = b.delay,
                   !.enabled = FALSE, !.fails = @ + 1,
                   !.delays = Append(@, b.delay)]
    ELSE [r EXCEPT !.st = "waiting", !.delay = 0, !.enabled = FALSE,
                   !.fails = @ + 1]

\* what a failed attempt tells the display layer, from the branch "site"
FailedUi(b, site) ==
    IF b.signal = "none" THEN ui
    ELSE [kind |-> b.signal, by |-> site, popup |-> b.popup]

\* a command that starts a sequence leaves the waiting state; the timers
\* and detections of the sequences that are running stay as they are
Unpark(B) == B (-) SetToBag(Parked)

\* ------------------------------------------------------------------ Init
\* activate(): the managers are constructed and initialize_extension() has
\* run up to its await of detect_process_info().
Init ==
    /\ is_initialized = FALSE
    /\ enabled \in BOOLEAN
    /\ polling = FALSE
    /\ chains = One(Detecting(NewChain(FALSE), 0, enabled))
    /\ ui = Signal("loading", "initialize_extension")
    /\ cmds = 0
    /\ connection = NoConnection
    /\ deactivated = FALSE
    /\ fetched = NothingFetched
    /\ bar = StatusBarManager(<< >>, TRUE)

\* --------------------------------------------------------------- actions
\* variant: the callback does not look at is_initialized
TimerFires_unguarded ==
    \E r \in Pending :
        /\ chains' = (chains (-) One(r)) (+) One(Detecting(r, r.attempt, enabled))
        /\ ui' = Signal("loading", "initialize_extension")
        /\ UNCHANGED <<is_initialized, enabled, polling, cmds, connection, deactivated, fetched, bar>>

\* a setTimeout callback runs: initialize_extension(attempt + 1)
TimerFires ==
    \E r \in Pending :
        /\ IF is_initialized
           THEN /\ chains' = chains (-) One(r)
                /\ ui' = ui
           ELSE /\ chains' = (chains (-) One(r)) (+) One(Detecting(r, r.attempt, enabled))
                /\ ui' = Signal("loading", "initialize_extension")
        /\ UNCHANGED <<is_initialized, enabled, polling, cmds, connection, deactivated, fetched, bar>>

\* variant: the success branch reads the configuration again
SettleFound_current ==
    \E r \in InFlight, process_info \in ProcessInfos :
        /\ r.fails < FailCap
        /\ chains' = chains (-) One(r)
        /\ connection' = init(process_info.connect_port, process_info.csrf_token)
        /\ polling' = IF enabled THEN start_polling ELSE polling
        /\ is_initialized' = TRUE
        /\ UNCHANGED <<enabled, ui, cmds, deactivated, fetched, bar>>

\* detect_process_info() returns a connection
SettleFound ==
    \E r \in InFlight, process_info \in ProcessInfos :
        /\ r.fails < FailCap
        /\ chains' = chains (-) One(r)
        /\ connection' = init(process_info.connect_port, process_info.csrf_token)
        /\ polling' = IF r.enabled THEN start_polling ELSE polling
        /\ is_initialized' = TRUE
        /\ UNCHANGED <<enabled, ui, cmds, deactivated, fetched, bar>>

\* detect_process_info() returns nothing
SettleNotFound ==
    \E r \in InFlight :
        LET b == NotFoundBranch(r.attempt) IN
        /\ r.fails < FailCap
        /\ chains' = (chains (-) One(r)) (+) One(Failed(r, b))
        /\ ui' = FailedUi(b, "not_found")
        /\ UNCHANGED <<is_initialized, enabled, polling, cmds, connection, deactivated, fetched, bar>>

\* the awaited detect_process_info() rejects: the catch branch runs
SettleThrows ==
    \E r \in InFlight :
        LET b == CatchBranch(r.attempt) IN
        /\ r.fails < FailCap
        /\ chains' = (chains (-) One(r)) (+) One(Failed(r, b))
        /\ ui' = FailedUi(b, "catch")
        /\ UNCHANGED <<is_initialized, enabled, polling, cmds, connection, deactivated, fetched, bar>>

\* command agq.activate
CmdActivate ==
    /\ ~deactivated
    /\ cmds < MaxCommands
    /\ cmds' = cmds + 1
    /\ IF ~is_initialized
       THEN /\ chains' = Unpark(chains) (+) One(Detecting(NewChain(FALSE), 0, enabled))
            /\ ui' = Signal("loading", "initialize_extension")
       ELSE /\ chains' = chains
            /\ ui' = Popup(ui, "info")
    /\ UNCHANGED <<is_initialized, enabled, polling, connection, deactivated, fetched, bar>>

\* command agq.reconnect
CmdReconnect ==
    /\ ~deactivated
    /\ cmds < MaxCommands
    /\ cmds' = cmds + 1
    /\ is_initialized' = FALSE
    /\ polling' = stop_polling
    /\ chains' = Unpark(chains) (+) One(Detecting(NewChain(Parked # {}), 0, enabled))
    /\ ui' = Popup(Signal("loading", "initialize_extension"), "info")
    /\ UNCHANGED <<enabled, connection, deactivated, fetched, bar>>

\* command agq.refresh: fetch_quota() and the callback it ends in
CmdRefresh ==
    /\ ~deactivated
    /\ cmds < MaxCommands
    /\ cmds' = cmds + 1
    /\ \E site \in {"on_update", "on_error"} :
          ui' = Popup(Signal(IF site = "on_update" THEN "quota" ELSE "error", site), "info")
    /\ UNCHANGED <<is_initialized, enabled, polling, chains, connection, deactivated, fetched, bar>>

\* config_manager.on_config_change handler
ConfigChange ==
    \E new_enabled \in BOOLEAN :
        /\ ~deactivated
        /\ enabled' = new_enabled
        /\ polling' = IF new_enabled THEN start_polling ELSE stop_polling
        /\ UNCHANGED <<is_initialized, chains, ui, cmds, connection, deactivated, fetched, bar>>

\* a poll tick ends in quota_manager.on_update: status_bar.update(snapshot)
PollUpdate ==
    /\ polling
    /\ ui' = Signal("quota", "on_update")
    /\ UNCHANGED <<is_initialized, enabled, polling, chains, cmds, connection, deactivated, fetched, bar>>

\* variant: the error handler gives the connection up
PollError_drop ==
    /\ polling
    /\ ui' = Signal("error", "on_error")
    /\ is_initialized' = FALSE
    /\ polling' = stop_polling
    /\ UNCHANGED <<enabled, chains, cmds, connection, deactivated, fetched, bar>>

\* a poll tick ends in quota_manager.on_error: status_bar.show_error(msg)
PollError ==
    /\ polling
    /\ ui' = Signal("error", "on_error")
    /\ UNCHANGED <<is_initialized, enabled, polling, chains, cmds, connection, deactivated, fetched, bar>>

\* deactivate(): the poll timer is stopped and the status bar item disposed;
\* VS Code then disposes the commands and the configuration listener.
\* No retry timer is cleared and is_initialized is left as it is.
Deactivate ==
    /\ ~deactivated
    /\ deactivated' = TRUE
    /\ polling' = stop_polling
    /\ ui' = Signal("disposed", "deactivate")
    /\ UNCHANGED <<is_initialized, enabled, chains, cmds, connection, fetched, bar>>

Settle == SettleFound \/ SettleNotFound \/ SettleThrows

Next ==
    \/ TimerFires
    \/ SettleFound
    \/ SettleNotFound
    \/ SettleThrows
    \/ CmdActivate
    \/ CmdReconnect
    \/ CmdRefresh
    \/ ConfigChange
    \/ PollUpdate
    \/ PollError
    \/ Deactivate

Spec == Init /\ [][Next]_vars

\* The status bar alone: the settings are drawn from their bounded sets and
\* the quota callback delivers any snapshot; the controller stands still.
controller == <<is_initialized, enabled, polling, chains, ui, cmds, connection, deactivated>>

SbInit ==
    /\ is_initialized = TRUE
    /\ enabled = TRUE
    /\ polling = TRUE
    /\ chains = EmptyBag
    /\ ui = Signal("quota", "on_update")
    /\ cmds = 0
    /\ connection = init(2, "a")
    /\ deactivated = FALSE
    /\ \E snapshot \in Snapshots, show_prompt_credits \in BOOLEAN :
          fetched = Fetched(snapshot, show_prompt_credits)
    /\ \E pinned \in IdLists, use_simple \in BOOLEAN :
          bar = StatusBarManager(pinned, use_simple)

\* quota_manager.on_update: status_bar.update(snapshot, show_prompt_credits)
SbUpdate ==
    /\ fetched.snapshot # << >>
    /\ bar' = update(bar, fetched.snapshot[1], fetched.show_prompt_credits)
    /\ UNCHANGED <<controller, fetched>>

\* command agq.show_menu: show_menu() opens the quick pick
SbShowMenu ==
    /\ bar' = [bar EXCEPT !.menu = build_menu_items(bar)]
    /\ UNCHANGED <<controller, fetched>>

\* pick.onDidHide
SbHideMenu ==
    /\ bar.menu # << >>
    /\ bar' = [bar EXCEPT !.menu = << >>]
    /\ UNCHANGED <<controller, fetched>>

\* pick.onDidAccept on the active item: the setting is toggled, the menu
\* rebuilt and, with a snapshot at hand, the status bar updated
SbAccept ==
    \E i \in 1..Len(bar.menu) :
        LET active == bar.menu[i]
            toggled ==
                IF active.action = "toggle_simple_names"
                THEN [bar EXCEPT !.use_simple = toggle_simple_names(@)]
                ELSE [bar EXCEPT !.pinned = toggle_pinned_model(@, active.model_id),
                                 !.toggled = active.model_id]
            rebuilt == [toggled EXCEPT !.menu = build_menu_items(toggled)]
        IN  /\ active.action = "toggle_simple_names" \/ active.model_id # ""
            /\ bar' = IF rebuilt.last_snapshot # << >>
                      THEN update(rebuilt, rebuilt.last_snapshot[1],
                                  fetched.show_prompt_credits)
                      ELSE rebuilt
            /\ UNCHANGED <<controller, fetched>>

\* the controller calls status_bar.show_loading()
SbShowLoading ==
    /\ bar' = show_loading(bar)
    /\ UNCHANGED <<controller, fetched>>

\* quota_manager.on_error: status_bar.show_error(err.message)
SbShowError ==
    /\ bar' = show_error(bar, "fetch failed")
    /\ UNCHANGED <<controller, fetched>>

SbNext ==
    \/ SbUpdate
    \/ SbShowLoading
    \/ SbShowError
    \/ SbShowMenu
    \/ SbHideMenu
    \/ SbAccept

SbSpec == SbInit /\ [][SbNext]_vars

\* The extension left alone: no user command is issued.  Every detection
\* settles and every timer that was set fires.
NextAuto ==
    \/ TimerFires
    \/ SettleFound
    \/ SettleNotFound
    \/ SettleThrows
    \/ ConfigChange
    \/ PollUpdate
    \/ PollError

LiveSpec == Init /\ [][NextAuto]_vars /\ WF_vars(TimerFires) /\ WF_vars(Settle)

\* ----------------------------------------------------------------- claims
\* the delays of a sequence that never finds the process
Schedule ==
    [i \in 1..MAX_ATTEMPTS |-> IF i <= MAX_PHASE1_ATTEMPTS THEN FAST_DELAY ELSE SLOW_DELAY]

\* a step in which a detection is started, and one for attempt 0
Starts ==
    \E r \in InFlight' : CopiesIn(r, chains') > CopiesIn(r, chains)

StartsAtZero ==
    \E r \in InFlight' : r.attempt = 0 /\ CopiesIn(r, chains') > CopiesIn(r, chains)

\* C1: with no user command, a sequence that has failed 21 times in a row
\* has scheduled 12 delays of 5 s, then 9 delays of 60 s, and is in the
\* waiting state with no timer pending and no detection in flight.
C1_Claim ==
    \A r \in BagToSet(chains) :
        (cmds = 0 /\ r.fails = MAX_ATTEMPTS) =>
            /\ r.delays = Schedule
            /\ r.st = "waiting"
            /\ Live = {}

\* C2: a reconnect command leaves no timer pending that was scheduled
\* before it (a timer that is pending fires: nothing clears it), and right
\* after it exactly one sequence exists, at attempt 0.
C2_Claim ==
    [][ CmdReconnect =>
            /\ Pending' = {}
            /\ CountOf(Live', chains') = 1
            /\ \A r \in Live' : r.attempt = 0
      ]_vars

\* C3: at most one call of detect_process_info is in flight.
C3_Claim == InFlightCount <= 1

\* C4: a sequence started by a reconnect command issued in the waiting
\* state starts at attempt 0, and when its first detection fails the retry
\* it schedules has a 5 s delay and attempt 1.
C4_ReconnectFromWaiting ==
    \A r \in BagToSet(chains) :
        r.rw =>
            /\ r.fails = 0 => (r.attempt = 0 /\ r.st = "detect")
            /\ r.fails >= 1 => r.delays[1] = 5000
            /\ r.fails = 1 => (r.attempt = 1 /\ (r.st = "timer" => r.delay = 5000))

C4_Witness ==
    \E r \in Pending : r.rw /\ r.fails = 1 /\ r.delay = 5000

\* C5: while is_initialized is true no detection is started and
\* is_initialized is not reset, except by a reconnect command.
C5_HaltedUntilReconnect ==
    [][ is_initialized =>
            /\ Starts => CmdReconnect
            /\ ~is_initialized' => CmdReconnect
      ]_vars

C5_Witness == is_initialized /\ Pending # {}

\* C6: a step in which an attempt ends in an exception is the step the same
\* attempt makes when the process is not found: the same retry with the same
\* delay and attempt + 1, or the same transition to waiting; the sequence
\* is still there.
C6_ExceptionAsNotFound ==
    [][ SettleThrows =>
            \E r \in InFlight :
                LET b == NotFoundBranch(r.attempt) IN
                /\ chains' = (chains (-) One(r)) (+) One(Failed(r, b))
                /\ Failed(r, b).st \in {"timer", "waiting"}
                /\ ui'.kind = FailedUi(b, "not_found").kind
                /\ ui'.popup = FailedUi(b, "not_found").popup
                /\ UNCHANGED <<is_initialized, enabled, polling, cmds, connection, deactivated, fetched, bar>>
      ]_vars

C6_Witness == Parked # {} /\ ui = Signal("waiting", "catch")

\* C7: the retry controller sends only loading and waiting signals to the
\* status bar and shows no error message; an error signal comes from the
\* error subscription of the quota manager only.
C7_NoErrorFromDiscovery ==
    /\ ui.by \in ControllerSites => (ui.kind \in {"loading", "waiting"} /\ ui.popup # "error")
    /\ ui.kind = "error" => ui.by = "on_error"

C7_Witness ==
    /\ \E r \in Parked : r.fails = MAX_ATTEMPTS + 1
    /\ ui.kind = "waiting"
    /\ ui.by \in ControllerSites

\* C8: once the waiting state was entered and no command was issued since,
\* no timer is pending, no detection is in flight and the controller has
\* not left the waiting state.
C8_Claim == Parked # {} => (Live = {} /\ ~is_initialized)

\* C9: left alone, with every detection settling and every timer firing,
\* the controller ends up initialized or waiting, with nothing pending, and
\* it is waiting only after MAX_ATTEMPTS + 1 failed attempts.
C9_Terminates ==
    <>[](/\ Live = {}
         /\ \/ is_initialized
            \/ Parked # {} /\ \A r \in Parked : r.fails = MAX_ATTEMPTS + 1)

C9_Witness == Live = {} /\ Parked # {} /\ ~is_initialized /\ cmds = 0

\* C10 as stated: a sequence advances its attempt by one per failed
\* resolution and only a reconnect command starts a detection at attempt 0.
C10_Claim ==
    [][ /\ \A r \in Live' : r.attempt = r.fails
        /\ StartsAtZero => CmdReconnect
      ]_vars

\* C10: a sequence advances its attempt by one per failed resolution, and
\* only a user command, reconnect or activate, starts a detection at
\* attempt 0.
C10_OnlyCommandsRestart ==
    [][ /\ \A r \in Live' : r.attempt = r.fails
        /\ StartsAtZero => (CmdReconnect \/ CmdActivate)
      ]_vars

C10_Witness ==
    /\ cmds > 0
    /\ ui = Signal("loading", "initialize_extension")
    /\ \E r \in InFlight : r.attempt = 0 /\ ~r.rw /\ CopiesIn(r, chains) = 2

\* the sum of the delays d[from..to]
RECURSIVE SumDelays(_, _, _)
SumDelays(d, from, to) ==
    IF from > to THEN 0 ELSE d[from] + SumDelays(d, from + 1, to)

\* C11: a sequence that failed all the way to the waiting state scheduled
\* 60 s of delays in its first phase (12 retries), 540 s in its second, and
\* entered waiting after 600 s of scheduled delay (times in ms).
C11_TenMinutes ==
    \A r \in Parked :
        /\ Len(r.delays) >= 12
        /\ SumDelays(r.delays, 1, 12) = 60000
        /\ SumDelays(r.delays, 13, Len(r.delays)) = 540000
        /\ SumDelays(r.delays, 1, Len(r.delays)) = 600000

C11_Witness ==
    \E r \in Parked : r.fails = Len(r.delays) + 1 /\ r.delays[12] = 5000 /\ r.delays[13] = 60000

\* C12: a step in which the error subscription reports a fetch failure
\* leaves is_initialized, the poll timer, the installed connection and the
\* retry sequences as they are; it only shows the error.
C12_ErrorOnlyReported ==
    [][(ui' # ui /\ ui'.by = "on_error")
          => /\ ui'.kind = "error"
             /\ UNCHANGED <<is_initialized, polling, chains, connection>>]_vars

C12_Witness ==
    is_initialized /\ polling /\ ui = Signal("error", "on_error")

\* the model of the shown snapshot that a part renders
ModelOf(part) ==
    LET ms == bar.last_snapshot[1].models
    IN  ms[CHOOSE i \in 1..Len(ms) : ms[i].model_id = part.model_id]

\* C13: every pinned model that update() renders gets $(error) exactly
\* when it is exhausted, $(warning) exactly when it is not exhausted and its
\* percentage is known and below 20, and $(check) otherwise (20 itself and an
\* unknown percentage included).
C13_StatusIcons ==
    \A i \in 1..Len(bar.parts) :
        LET m == ModelOf(bar.parts[i])
            icon == bar.parts[i].status_icon
            low == /\ ~m.is_exhausted
                   /\ m.remaining_percentage # Unset
                   /\ m.remaining_percentage[1] < 200
        IN  /\ Includes(bar.pinned, m.model_id)
            /\ icon = "$(error)" <=> m.is_exhausted
            /\ icon = "$(warning)" <=> low
            /\ icon = "$(check)" <=> (~m.is_exhausted /\ ~low)

C13_Witness ==
    /\ Len(bar.parts) = 2
    /\ bar.parts[1].status_icon = "$(check)"
    /\ ModelOf(bar.parts[1]).remaining_percentage = <<200>>
    /\ bar.parts[2].status_icon = "$(warning)"
    /\ ModelOf(bar.parts[2]).remaining_percentage = <<195>>
    /\ bar.parts[2].pct = "20%"

\* C14: when no model of the snapshot is pinned, update() shows the default
\* text, with show_credits true as well as false.
C14_DefaultText ==
    (bar.last_call = "update"
        /\ PinnedModels(bar.last_snapshot[1], bar.pinned) = << >>)
    => bar.text = "$(rocket) AGQ"

C14_Witness ==
    /\ bar.last_call = "update"
    /\ bar.last_snapshot[1].models # << >>
    /\ bar.pinned # << >>
    /\ PinnedModels(bar.last_snapshot[1], bar.pinned) = << >>
    /\ bar.show_credits
    /\ bar.text = "$(rocket) AGQ"

\* C15: the attempt budget is 21: no sequence has called the Resolver more
\* than 21 times, and no Resolver call is in flight for an attempt counter
\* of 21 or more.
C15_Claim ==
    \A r \in BagToSet(chains) :
        /\ r.fails <= 21
        /\ r.st = "detect" => (r.attempt < 21 /\ r.fails + 1 <= 21)

\* C16: a step in which the detection of a sequence r succeeds (r leaves
\* the bag and no retry takes its place) installs the resolved connect_port
\* and csrf_token, starts polling if the configuration r read at its start
\* had enabled = true and leaves the poll timer alone if not, and sets
\* is_initialized in both cases.
C16_SuccessfulResolution ==
    [][\A r \in InFlight :
          chains' = chains (-) One(r)
          => /\ \E info \in ProcessInfos :
                   connection' = [connect_port |-> info.connect_port,
                                  csrf_token |-> info.csrf_token]
             /\ is_initialized'
             /\ r.enabled => polling'
             /\ ~r.enabled => polling' = polling]_vars

C16_Witness ==
    /\ is_initialized
    /\ connection = [connect_port |-> 4, csrf_token |-> "b"]
    /\ ~polling
    /\ ~enabled
    /\ cmds = 0

\* C17: whenever the poll timer is running, is_initialized is true.
C17_Claim == polling => is_initialized

\* C18: whenever the poll timer is running, the current configuration has
\* enabled = true.
C18_Claim == polling => enabled

\* C19: once deactivate() has run, no step starts a Resolver call, calls
\* init or start_polling, or sets is_initialized: polling stays stopped.
C19_Claim ==
    [][deactivated => (~Starts /\ UNCHANGED <<connection, polling, is_initialized>>)]_vars

\* a sequence gives up in this step: show_waiting() is called
ShowsWaiting == \E r \in Parked' : CopiesIn(r, chains') > CopiesIn(r, chains)

\* C20: show_waiting() is called only while is_initialized is false.
C20_Claim == [][ShowsWaiting => ~is_initialized]_vars

\* C21: every attempt number announced for a detection is within the
\* budget of 21: show_loading gets no annotation at attempt 0 and `(k/21)`
\* with 1 <= k <= 21 otherwise, and the log line says `attempt n/21` with
\* 1 <= n <= 21.
C21_Claim ==
    \A r \in InFlight :
        /\ r.attempt = 0 => r.shown = << >>
        /\ r.attempt > 0 => /\ Len(r.shown) = 2
                            /\ r.shown[2] = 21
                            /\ r.shown[1] \in 1..21
        /\ r.logged[2] = 21
        /\ r.logged[1] \in 1..21

\* C22: after any sequence of show_loading, show_error and update calls the
\* item has the error background exactly when the last call was show_error.
C22_Claim ==
    bar.backgroundColor = "statusBarItem.errorBackground"
        <=> bar.last_call = "show_error"

\* C23: a model whose remaining_percentage is unset is shown neither as 0 %
\* nor with the $(warning) icon, in the parts of the status bar text and in
\* the items of the menu.
C23_Claim ==
    /\ \A i \in 1..Len(bar.parts) :
          ModelOf(bar.parts[i]).remaining_percentage = Unset
          => /\ bar.parts[i].pct # "0%"
             /\ bar.parts[i].status_icon # "$(warning)"
    /\ \A i \in 1..Len(bar.menu) :
          (bar.menu[i].kind = "model"
              /\ ModelOf(bar.menu[i]).remaining_percentage = Unset)
          => /\ bar.menu[i].pct # "0.0%"
             /\ bar.menu[i].status_icon # "$(warning)"

\* the models of a pinned list
PinnedSet(pinned) == {pinned[i] : i \in 1..Len(pinned)}

\* the step toggles the model id: its membership flips, no other does
Flips(id) ==
    /\ Includes(bar'.pinned, id) <=> ~Includes(bar.pinned, id)
    /\ \A other \in ModelIds \ {id} :
          Includes(bar'.pinned, other) <=> Includes(bar.pinned, other)

====
